---------------------------- MODULE Spec2Model ----------------------------
(***************************************************************************)
(* Model of src/weather.rs: the WeatherState fetch state machine (run,     *)
(* on_timer, on_web_request, fetch_location, fetch_forecast), the hourly   *)
(* refresh gate of on_timer, and the WeatherCode classification            *)
(* (From<u32>, need_umbrella).                                             *)
(*                                                                         *)
(* Option<T> is modelled as a tuple: None is << >>, Some(v) is <<v>>.      *)
(* A DateTime<Utc> is the number of minutes since midnight of day 0.       *)
(***************************************************************************)
EXTENDS Integers, Sequences, FiniteSets, Bags, TLC

VARIABLES
    fetch_state,     \* WeatherState.fetch_state
    forecast,        \* WeatherState.forecast
    last_updated,    \* WeatherState.last_updated
    last_requested,  \* WeatherState.last_requested
    last_rendered,   \* WeatherState.last_rendered
    rendered,        \* WeatherState.rendered
    now,             \* the wall clock read by Utc::now()
    outstanding,     \* bag of web_request calls not yet answered by the host
    last_op,         \* the handler the host invoked last
    event,           \* the Event handed to the last on_web_request call
    sent,            \* the web_request calls made by the last handler
    raw,             \* the raw WMO code to convert, None when a code is given
    code,            \* the WeatherCode value at hand, None before conversion
    advice,          \* the NeedsUmbrella value computed last
    payload,         \* the JSON forecast payload handed to the decoder
    decoded          \* the Result of decoding it, None before decoding

widget == <<fetch_state, forecast, last_updated, last_requested,
            last_rendered, rendered>>
host == <<now, outstanding, last_op, event, sent>>
classifier == <<raw, code, advice>>
decoder == <<payload, decoded>>
vars == <<fetch_state, forecast, last_updated, last_requested, last_rendered,
          rendered, now, outstanding, last_op, event, sent, raw, code, advice,
          payload, decoded>>

---------------------------------------------------------------------------
(* Bounds *)

\* Days covered by the sampled wall clock: days 0..MaxDay.
MaxDay == 2

\* At most this many web requests are in flight at a time.
MaxOutstanding == 2

\* Raw WMO codes 0..MaxRawCode are classified (the table ends at 99).
MaxRawCode == 100

\* The arrays of a forecast payload have 0..MaxLen elements.
MaxLen == 2

---------------------------------------------------------------------------
(* Values *)

None == << >>

Some(v) == <<v>>

\* Hours of the day and minutes of the hour at which the clock is sampled.
HourSamples == {9, 10}

MinuteSamples == {0, 59}

Times == { (d * 24 + h) * 60 + m : d \in 0..MaxDay, h \in HourSamples,
                                    m \in MinuteSamples }

\* chrono Timelike::hour() of a DateTime<Utc>.
hour(t) == (t \div 60) % 24

FetchState == {"Idle", "FetchingLocation", "FetchingForecast"}

\* Values of the "api" key of a request context; NoTag is the empty context.
NoTag == "none"

Tags == {"location", "forecast", NoTag}

IpApiUrl == "http://ip-api.com/json/"

OpenMeteoUrl == "https://api.open-meteo.com/v1/forecast"

\* The web_request calls of run, fetch_location and fetch_forecast: the URL
\* and the "api" entry of the context.
Requests ==
    { [url |-> IpApiUrl, api |-> NoTag],
      [url |-> IpApiUrl, api |-> "location"],
      [url |-> OpenMeteoUrl, api |-> "forecast"] }

\* HTTP statuses and payload kinds the host may answer with.
Statuses == {200, 404}

Bodies == {"geolocation", "forecast", "malformed", "bad_timezone"}

\* The decoded WeatherForecastResp a WeatherState may hold; no handler reads it.
Snapshots == {"snapshot"}

NoEvent == [kind |-> "none", status |-> 0, body |-> "none", api |-> NoTag]

\* Event::WebRequestResult(status, headers, body, context) and the other events.
WebRequestResult(status, body, api) ==
    [kind |-> "WebRequestResult", status |-> status, body |-> body, api |-> api]

OtherEvent == [kind |-> "Timer", status |-> 0, body |-> "none", api |-> NoTag]

---------------------------------------------------------------------------
(* WeatherState *)

\* WeatherState::new
New ==
    /\ fetch_state = "Idle"
    /\ forecast = None
    /\ last_updated = None
    /\ last_requested = None
    /\ last_rendered = None
    /\ rendered = ""

\* zellij_tile web_request: registers the request with the host.
web_request(reqs) ==
    /\ sent' = reqs
    /\ outstanding' = outstanding (+) SetToBag({ reqs[i] : i \in 1..Len(reqs) })

\* WeatherState::run
run ==
    /\ BagCardinality(outstanding) < MaxOutstanding
    /\ fetch_state' = "FetchingLocation"
    /\ web_request(<<[url |-> IpApiUrl, api |-> NoTag]>>)
    /\ last_op' = "run"
    /\ event' = NoEvent
    /\ UNCHANGED <<forecast, last_updated, last_requested, last_rendered,
                   rendered, now, classifier, decoder>>

\* fetch_location as run issues its request: no context, no last_requested.
fetch_location_untagged ==
    /\ fetch_state' = "FetchingLocation"
    /\ web_request(<<[url |-> IpApiUrl, api |-> NoTag]>>)
    /\ UNCHANGED last_requested

\* WeatherState::fetch_location
fetch_location ==
    /\ fetch_state' = "FetchingLocation"
    /\ web_request(<<[url |-> IpApiUrl, api |-> "location"]>>)
    /\ last_requested' = Some(now)

\* The gate as an elapsed-time test: an hour or more since the last update.
timer_due_elapsed(t, st, lu) ==
    st = "Idle" /\ (lu = None \/ t - lu[1] >= 60)

\* The guard of the first match arm of WeatherState::on_timer.
timer_due(t, st, lu) ==
    st = "Idle" /\ (lu = None \/ hour(t) # hour(lu[1]))

\* on_timer with a catch-all arm that gives up a fetch in progress.
on_timer_reset ==
    /\ IF timer_due(now, fetch_state, last_updated)
       THEN BagCardinality(outstanding) < MaxOutstanding /\ fetch_location
       ELSE /\ sent' = << >>
            /\ fetch_state' = "Idle"
            /\ UNCHANGED <<last_requested, outstanding>>
    /\ last_op' = "on_timer"
    /\ event' = NoEvent
    /\ UNCHANGED <<forecast, last_updated, last_rendered, rendered, now,
                   classifier, decoder>>

\* WeatherState::on_timer
on_timer ==
    /\ IF timer_due(now, fetch_state, last_updated)
       THEN BagCardinality(outstanding) < MaxOutstanding /\ fetch_location
       ELSE /\ sent' = << >>
            /\ UNCHANGED <<fetch_state, last_requested, outstanding>>
    /\ last_op' = "on_timer"
    /\ event' = NoEvent
    /\ UNCHANGED <<forecast, last_updated, last_rendered, rendered, now,
                   classifier, decoder>>

\* WeatherState::fetch_forecast (no caller in weather.rs).
fetch_forecast ==
    /\ fetch_state' = "FetchingForecast"
    /\ web_request(<<[url |-> OpenMeteoUrl, api |-> "forecast"]>>)
    /\ last_requested' = Some(now)

\* on_web_request with arms that end the stage on any result, whatever its
\* context.
handle_web_request_untagged(e) ==
    IF e.kind = "WebRequestResult"
    THEN CASE fetch_state = "Idle" -> UNCHANGED widget
           [] fetch_state = "FetchingLocation" ->
                  /\ fetch_state' = "Idle"
                  /\ UNCHANGED <<forecast, last_updated, last_requested,
                                 last_rendered, rendered>>
           [] fetch_state = "FetchingForecast" ->
                  /\ fetch_state' = "Idle"
                  /\ UNCHANGED <<forecast, last_updated, last_requested,
                                 last_rendered, rendered>>
    ELSE UNCHANGED widget

\* on_web_request with a FetchingForecast arm that drops the cached forecast
\* when the refresh fails.
handle_web_request_clearing(e) ==
    IF e.kind = "WebRequestResult"
    THEN CASE fetch_state = "Idle" -> UNCHANGED widget
           [] fetch_state = "FetchingLocation" -> UNCHANGED widget
           [] fetch_state = "FetchingForecast" ->
                  IF e.status >= 200 /\ e.status < 300
                  THEN UNCHANGED widget
                  ELSE /\ forecast' = None
                       /\ fetch_state' = "Idle"
                       /\ UNCHANGED <<last_updated, last_requested,
                                      last_rendered, rendered>>
    ELSE UNCHANGED widget

\* The body of WeatherState::on_web_request: every match arm is empty.
handle_web_request(e) ==
    IF e.kind = "WebRequestResult"
    THEN CASE fetch_state = "Idle" -> UNCHANGED widget
           [] fetch_state = "FetchingLocation" -> UNCHANGED widget
           [] fetch_state = "FetchingForecast" -> UNCHANGED widget
    ELSE UNCHANGED widget

\* The host answers one request in flight: WeatherState::on_web_request is
\* called with a WebRequestResult that echoes the context of that request.
\* It may also be handed an event of another kind, which answers no request.
on_web_request ==
    /\ \/ \E r \in BagToSet(outstanding), s \in Statuses, b \in Bodies :
            /\ event' = WebRequestResult(s, b, r.api)
            /\ outstanding' = outstanding (-) SetToBag({r})
       \/ /\ event' = OtherEvent
          /\ UNCHANGED outstanding
    /\ handle_web_request(event')
    /\ sent' = << >>
    /\ last_op' = "on_web_request"
    /\ UNCHANGED <<now, classifier, decoder>>

\* Time passes between two events.
advance_clock ==
    /\ \E t \in Times : t > now /\ now' = t
    /\ last_op' = "clock"
    /\ event' = NoEvent
    /\ sent' = << >>
    /\ UNCHANGED <<widget, outstanding, classifier, decoder>>

---------------------------------------------------------------------------
(* WeatherCode *)

\* The variants of enum WeatherCode without a payload, in declaration order.
NamedCodes ==
    {"ClearSky", "MainlyClear", "PartlyCloudy", "Overcast", "Fog", "RimeFog",
     "DrizzleLight", "DrizzleModerate", "DrizzleDense",
     "FreezingDrizzleLight", "FreezingDrizzleHeavy",
     "RainSlight", "RainModerate", "RainHeavy",
     "FreezingRainLight", "FreezingRainHeavy",
     "SnowFallSlight", "SnowFallModerate", "SnowFallHeavy", "SnowGrains",
     "RainShowersSlight", "RainShowersModerate", "RainShowersViolent",
     "SnowShowersSlight", "SnowShowersHeavy",
     "Thunderstorm", "ThunderstormSlightHail", "ThunderstormHeavyHail"}

RawCodes == 0..MaxRawCode

\* WeatherCode::Unknown(x)
Unknown(x) == <<"Unknown", x>>

\* enum WeatherCode: <<name>> for a named variant, <<"Unknown", x>> otherwise.
WeatherCode == { <<n>> : n \in NamedCodes } \cup { Unknown(x) : x \in RawCodes }

\* enum NeedsUmbrella
NeedsUmbrella == {"No", "Maybe", "Sure"}

\* need_umbrella with freezing rain listed among the Sure variants.
need_umbrella_freezing_rain(c) ==
    CASE c[1] \in {"DrizzleLight", "DrizzleModerate", "SnowFallSlight",
                   "SnowGrains", "SnowShowersSlight"} -> "Maybe"
      [] c[1] \in {"DrizzleDense", "FreezingDrizzleLight", "FreezingDrizzleHeavy",
                   "RainSlight", "RainModerate", "RainHeavy",
                   "FreezingRainLight", "FreezingRainHeavy",
                   "SnowFallModerate", "SnowFallHeavy",
                   "RainShowersSlight", "RainShowersModerate",
                   "RainShowersViolent", "SnowShowersHeavy",
                   "Thunderstorm", "ThunderstormSlightHail",
                   "ThunderstormHeavyHail"} -> "Sure"
      [] OTHER -> "No"

\* WeatherCode::need_umbrella
need_umbrella(c) ==
    CASE c[1] \in {"DrizzleLight", "DrizzleModerate", "SnowFallSlight",
                   "SnowGrains", "SnowShowersSlight"} -> "Maybe"
      [] c[1] \in {"DrizzleDense", "FreezingDrizzleLight", "FreezingDrizzleHeavy",
                   "RainSlight", "RainModerate", "RainHeavy",
                   "SnowFallModerate", "SnowFallHeavy",
                   "RainShowersSlight", "RainShowersModerate",
                   "RainShowersViolent", "SnowShowersHeavy",
                   "Thunderstorm", "ThunderstormSlightHail",
                   "ThunderstormHeavyHail"} -> "Sure"
      [] OTHER -> "No"

\* From<u32> with the arms of slight and moderate rain exchanged.
from_u32_rain_swapped(value) ==
    CASE value = 0 -> <<"ClearSky">>
      [] value = 1 -> <<"MainlyClear">>
      [] value = 2 -> <<"PartlyCloudy">>
      [] value = 3 -> <<"Overcast">>
      [] value = 45 -> <<"Fog">>
      [] value = 48 -> <<"RimeFog">>
      [] value = 51 -> <<"DrizzleLight">>
      [] value = 53 -> <<"DrizzleModerate">>
      [] value = 55 -> <<"DrizzleDense">>
      [] value = 56 -> <<"FreezingDrizzleLight">>
      [] value = 57 -> <<"FreezingDrizzleHeavy">>
      [] value = 61 -> <<"RainModerate">>
      [] value = 63 -> <<"RainSlight">>
      [] value = 65 -> <<"RainHeavy">>
      [] value = 66 -> <<"FreezingRainLight">>
      [] value = 67 -> <<"FreezingRainHeavy">>
      [] value = 71 -> <<"SnowFallSlight">>
      [] value = 73 -> <<"SnowFallModerate">>
      [] value = 75 -> <<"SnowFallHeavy">>
      [] value = 77 -> <<"SnowGrains">>
      [] value = 80 -> <<"RainShowersSlight">>
      [] value = 81 -> <<"RainShowersModerate">>
      [] value = 82 -> <<"RainShowersViolent">>
      [] value = 85 -> <<"SnowShowersSlight">>
      [] value = 86 -> <<"SnowShowersHeavy">>
      [] value = 95 -> <<"Thunderstorm">>
      [] value = 96 -> <<"ThunderstormSlightHail">>
      [] value = 99 -> <<"ThunderstormHeavyHail">>
      [] OTHER -> Unknown(value)

\* impl From<u32> for WeatherCode
from_u32(value) ==
    CASE value = 0 -> <<"ClearSky">>
      [] value = 1 -> <<"MainlyClear">>
      [] value = 2 -> <<"PartlyCloudy">>
      [] value = 3 -> <<"Overcast">>
      [] value = 45 -> <<"Fog">>
      [] value = 48 -> <<"RimeFog">>
      [] value = 51 -> <<"DrizzleLight">>
      [] value = 53 -> <<"DrizzleModerate">>
      [] value = 55 -> <<"DrizzleDense">>
      [] value = 56 -> <<"FreezingDrizzleLight">>
      [] value = 57 -> <<"FreezingDrizzleHeavy">>
      [] value = 61 -> <<"RainSlight">>
      [] value = 63 -> <<"RainModerate">>
      [] value = 65 -> <<"RainHeavy">>
      [] value = 66 -> <<"FreezingRainLight">>
      [] value = 67 -> <<"FreezingRainHeavy">>
      [] value = 71 -> <<"SnowFallSlight">>
      [] value = 73 -> <<"SnowFallModerate">>
      [] value = 75 -> <<"SnowFallHeavy">>
      [] value = 77 -> <<"SnowGrains">>
      [] value = 80 -> <<"RainShowersSlight">>
      [] value = 81 -> <<"RainShowersModerate">>
      [] value = 82 -> <<"RainShowersViolent">>
      [] value = 85 -> <<"SnowShowersSlight">>
      [] value = 86 -> <<"SnowShowersHeavy">>
      [] value = 95 -> <<"Thunderstorm">>
      [] value = 96 -> <<"ThunderstormSlightHail">>
      [] value = 99 -> <<"ThunderstormHeavyHail">>
      [] OTHER -> Unknown(value)

\* A raw code is converted: n.into() of deserialize_weather_code_vec.
classify ==
    /\ raw # None
    /\ code' = Some(from_u32(raw[1]))
    /\ advice' = "none"
    /\ UNCHANGED <<raw, widget, host, decoder>>

\* The advisory of the code at hand is computed.
advise ==
    /\ code # None
    /\ advice' = need_umbrella(code[1])
    /\ UNCHANGED <<raw, code, widget, host, decoder>>

---------------------------------------------------------------------------
(* Response decoding *)

\* JSON scalars: a number or a string.
Num(n) == <<"num", n>>

Str(x) == <<"str", x>>

\* struct HourlyWeatherData: its fields, all required.
HourlyFields ==
    {"time", "weather_code", "temperature_2m", "apparent_temperature",
     "wind_speed_10m"}

\* struct DailyWeatherData: its fields, all required.
DailyFields ==
    {"time", "weather_code", "temperature_2m_min", "temperature_2m_max",
     "apparent_temperature_min", "apparent_temperature_max"}

\* Zone names chrono_tz resolves (s.parse() of deserialize_tz).
KnownZones == {"Asia/Seoul", "Asia/Tokyo"}

\* deserialize_tz
deserialize_tz(v) ==
    IF v[1] = "str" /\ v[2] \in KnownZones THEN Some(v[2]) ELSE None

\* NaiveDateTime::parse_from_str(s, "%Y-%m-%dT%H:%M"): minutes since
\* 2023-12-15T00:00 of the strings of that format, None for any other string.
parse_datetime(s) ==
    CASE s = "2023-12-15T00:00" -> Some(0)
      [] s = "2023-12-15T01:00" -> Some(60)
      [] s = "2023-12-15T02:00" -> Some(120)
      [] s = "2023-12-15T03:00" -> Some(180)
      [] OTHER -> None

\* NaiveDate as serde reads it ("%Y-%m-%d"): days since 2023-12-15.
parse_date(s) ==
    CASE s = "2023-12-15" -> Some(0)
      [] s = "2023-12-16" -> Some(1)
      [] s = "2023-12-17" -> Some(2)
      [] s = "2023-12-18" -> Some(3)
      [] OTHER -> None

\* Collecting a Vec of Results: Some(values) when every element is Some.
collect(results) ==
    IF \A i \in 1..Len(results) : results[i] # None
    THEN Some([i \in 1..Len(results) |-> results[i][1]])
    ELSE None

\* deserialize_date_vec
deserialize_date_vec(a) ==
    collect([i \in 1..Len(a) |->
                IF a[i][1] = "str" THEN parse_datetime(a[i][2]) ELSE None])

\* Vec<NaiveDate>
deserialize_naive_date_vec(a) ==
    collect([i \in 1..Len(a) |->
                IF a[i][1] = "str" THEN parse_date(a[i][2]) ELSE None])

\* deserialize_weather_code_vec
deserialize_weather_code_vec(a) ==
    collect([i \in 1..Len(a) |->
                IF a[i][1] = "num" /\ a[i][2] >= 0
                THEN Some(from_u32(a[i][2])) ELSE None])

\* Vec<f32>
deserialize_f32_vec(a) ==
    collect([i \in 1..Len(a) |-> IF a[i][1] = "num" THEN Some(a[i][2]) ELSE None])

\* The derived Deserialize of HourlyWeatherData: each field is read by its
\* own deserializer; a missing field or a failing element is an error.
deserialize_hourly(obj) ==
    IF obj = None \/ DOMAIN obj[1] # HourlyFields THEN None
    ELSE LET o == obj[1]
             r == [f \in HourlyFields |->
                     CASE f = "time" -> deserialize_date_vec(o[f])
                       [] f = "weather_code" -> deserialize_weather_code_vec(o[f])
                       [] OTHER -> deserialize_f32_vec(o[f])]
         IN  IF \A f \in HourlyFields : r[f] # None
             THEN Some([f \in HourlyFields |-> r[f][1]])
             ELSE None

\* The derived Deserialize of DailyWeatherData.
deserialize_daily(obj) ==
    IF obj = None \/ DOMAIN obj[1] # DailyFields THEN None
    ELSE LET o == obj[1]
             r == [f \in DailyFields |->
                     CASE f = "time" -> deserialize_naive_date_vec(o[f])
                       [] f = "weather_code" -> deserialize_weather_code_vec(o[f])
                       [] OTHER -> deserialize_f32_vec(o[f])]
         IN  IF \A f \in DailyFields : r[f] # None
             THEN Some([f \in DailyFields |-> r[f][1]])
             ELSE None

\* serde_json::from_str::<WeatherForecastResp>: <<"Ok", snapshot>> or <<"Err">>.
decode_forecast(p) ==
    LET tz == IF p.timezone = None THEN None ELSE deserialize_tz(p.timezone[1])
        h == deserialize_hourly(p.hourly)
        d == deserialize_daily(p.daily)
    IN  IF tz # None /\ h # None /\ d # None
        THEN <<"Ok", [timezone |-> tz[1], hourly |-> h[1], daily |-> d[1]]>>
        ELSE <<"Err">>

\* The forecast payload is decoded.
decode ==
    /\ decoded = None
    /\ decoded' = Some(decode_forecast(payload))
    /\ UNCHANGED <<payload, widget, host, classifier>>

---------------------------------------------------------------------------
(* Specifications *)

DecoderIdle ==
    /\ payload = None
    /\ decoded = None

ClassifierIdle ==
    /\ raw = None
    /\ code = None
    /\ advice = "none"

HostInit ==
    /\ now \in Times
    /\ outstanding = EmptyBag
    /\ last_op = "new"
    /\ event = NoEvent
    /\ sent = << >>

Init == New /\ HostInit /\ ClassifierIdle /\ DecoderIdle

Next == run \/ on_timer \/ on_web_request \/ advance_clock

Spec == Init /\ [][Next]_vars

\* Every WeatherState value, with at most one request in flight: the handlers
\* are exercised on states that new() and the handlers as written do not reach
\* (a FetchingForecast stage, a cached forecast).
AnyWidget ==
    /\ fetch_state \in FetchState
    /\ \/ forecast = None /\ last_updated = None
       \/ /\ forecast \in { Some(s) : s \in Snapshots }
          /\ last_updated \in { Some(t) : t \in Times }
    /\ last_requested \in {None} \cup { Some(t) : t \in Times }
    /\ last_rendered = None
    /\ rendered = ""

AnyHost ==
    /\ now \in Times
    /\ outstanding \in {EmptyBag} \cup { SetToBag({r}) : r \in Requests }
    /\ last_op = "new"
    /\ event = NoEvent
    /\ sent = << >>
    /\ \A o \in {last_updated, last_requested} :
           IF o = None THEN TRUE ELSE o[1] <= now

InitAny == AnyWidget /\ AnyHost /\ ClassifierIdle /\ DecoderIdle

SpecAny == InitAny /\ [][Next]_vars

\* Classification alone: the input is a raw code to convert or any WeatherCode
\* value.
InitClassify ==
    /\ New
    /\ HostInit
    /\ now = 540
    /\ \/ raw \in { Some(n) : n \in RawCodes } /\ code = None
       \/ raw = None /\ code \in { Some(c) : c \in WeatherCode }
    /\ advice = "none"
    /\ DecoderIdle

NextClassify == classify \/ advise

SpecClassify == InitClassify /\ [][NextClassify]_vars

\* The i-th hourly timestamp and the i-th daily date of a payload, as the
\* forecast service writes them.
HourlyStamps ==
    <<"2023-12-15T00:00", "2023-12-15T01:00", "2023-12-15T02:00",
      "2023-12-15T03:00">>

DailyDates == <<"2023-12-15", "2023-12-16", "2023-12-17", "2023-12-18">>

\* What may be wrong with a payload besides the lengths of its arrays.
Defects ==
    {"none", "bad_timezone", "missing_field", "bad_time", "not_numeric"}

\* An array of n elements of a field of a block.
FieldArray(f, stamps, n) ==
    [i \in 1..n |->
        CASE f = "time" -> Str(stamps[i])
          [] f = "weather_code" -> Num(3)
          [] OTHER -> Num(i)]

\* The forecast payload whose arrays have the given lengths, with one defect.
ForecastPayload(hlen, dlen, defect) ==
    LET hourly == [f \in HourlyFields |->
                      IF f = "time" /\ defect = "bad_time"
                      THEN [i \in 1..hlen[f] |-> Str("15/12/2023 00:00")]
                      ELSE FieldArray(f, HourlyStamps, hlen[f])]
        daily == [f \in DailyFields |->
                      IF f = "temperature_2m_min" /\ defect = "not_numeric"
                      THEN [i \in 1..dlen[f] |-> Str("n/a")]
                      ELSE FieldArray(f, DailyDates, dlen[f])]
    IN  [timezone |-> IF defect = "bad_timezone" THEN Some(Str("Mars/Olympus"))
                      ELSE Some(Str("Asia/Seoul")),
         hourly |-> IF defect = "missing_field"
                    THEN Some([f \in HourlyFields \ {"wind_speed_10m"} |-> hourly[f]])
                    ELSE Some(hourly),
         daily |-> Some(daily)]

\* Decoding alone: every forecast payload with arrays of 0..MaxLen elements.
InitDecode ==
    /\ New
    /\ HostInit
    /\ now = 540
    /\ ClassifierIdle
    /\ \E hlen \in [HourlyFields -> 0..MaxLen], dlen \in [DailyFields -> 0..MaxLen],
          defect \in Defects :
          payload = ForecastPayload(hlen, dlen, defect)
    /\ decoded = None

NextDecode == decode

SpecDecode == InitDecode /\ [][NextDecode]_vars

\* Every response is dropped: only timer ticks arrive, and they keep arriving
\* while time passes.
NextStall == on_timer \/ advance_clock

SpecStall ==
    Init /\ [][NextStall]_vars /\ WF_vars(on_timer) /\ WF_vars(advance_clock)

\* Every request is answered: the host delivers the response of each request
\* in flight, and timer ticks keep arriving while time passes.
NextAnswered == on_timer \/ on_web_request \/ advance_clock

SpecAnswered ==
    /\ Init
    /\ [][NextAnswered]_vars
    /\ WF_vars(on_web_request)
    /\ WF_vars(on_timer)
    /\ WF_vars(advance_clock)

---------------------------------------------------------------------------
(* Properties *)

\* A 2xx HTTP status.
Success(status) == status >= 200 /\ status < 300

\* The correlation tag that answers the request of a stage.
Matches(stage, api) ==
    \/ stage = "FetchingLocation" /\ api = "location"
    \/ stage = "FetchingForecast" /\ api = "forecast"

\* The step is a call of on_web_request with a WebRequestResult.
ResponseStep == last_op' = "on_web_request" /\ event'.kind = "WebRequestResult"

LocationRequest == [url |-> IpApiUrl, api |-> "location"]

ForecastRequest == [url |-> OpenMeteoUrl, api |-> "forecast"]

\* The payload of the event decodes for the stage it answers.
Decodable(stage, body) ==
    \/ stage = "FetchingLocation" /\ body = "geolocation"
    \/ stage = "FetchingForecast" /\ body = "forecast"

\* C1: a successful, decodable `location` response delivered in stage
\* FetchingLocation issues exactly one request tagged `forecast`, sets the
\* stage to FetchingForecast and records last_requested = now; forecast and
\* last_updated are unchanged by that step.
C1_LocationSuccessStartsForecast ==
    [][ (/\ ResponseStep
         /\ fetch_state = "FetchingLocation"
         /\ event'.api = "location"
         /\ Success(event'.status)
         /\ event'.body = "geolocation")
        => /\ sent' = <<ForecastRequest>>
           /\ fetch_state' = "FetchingForecast"
           /\ last_requested' = Some(now')
           /\ UNCHANGED <<forecast, last_updated>> ]_vars

C3_FailureRevertsToIdle ==
    [][ (/\ ResponseStep
         /\ Matches(fetch_state, event'.api)
         /\ \/ ~Success(event'.status)
            \/ ~Decodable(fetch_state, event'.body))
        => /\ fetch_state' = "Idle"
           /\ UNCHANGED <<forecast, last_updated>>
           /\ sent' = << >> ]_vars

\* C4: a response whose tag does not match the active stage changes no field
\* of the WeatherState and issues no request, whatever its status and body.
C4_MismatchedResponseIgnored ==
    [][ (ResponseStep /\ ~Matches(fetch_state, event'.api))
        => /\ UNCHANGED widget
           /\ sent' = << >> ]_vars

\* C4 witness: a `forecast` response was handled in stage Idle, and a
\* successful one.
C4_Witness ==
    /\ last_op = "on_web_request"
    /\ event.kind = "WebRequestResult"
    /\ event.api = "forecast"
    /\ Success(event.status)
    /\ fetch_state = "Idle"

\* The step is a call of on_timer that starts a refresh.
TickStarts ==
    /\ last_op' = "on_timer"
    /\ sent' # << >>
    /\ fetch_state' = "FetchingLocation"

\* C5: a timer tick starts a refresh iff the stage is Idle and last_updated is
\* None or its hour of day differs from that of now (with last_updated at hour
\* 9: none at hour 9, one at hour 10); a tick that starts none changes no
\* field and issues no request.
C5_TickStartsIffDue ==
    [][ last_op' = "on_timer"
        => /\ TickStarts <=>
                (/\ fetch_state = "Idle"
                 /\ IF last_updated = None THEN TRUE
                    ELSE hour(now) # hour(last_updated[1]))
           /\ (last_updated # None /\ hour(last_updated[1]) = 9 /\ hour(now) = 9)
                  => ~TickStarts
           /\ (/\ last_updated # None
               /\ hour(last_updated[1]) = 9
               /\ hour(now) = 10
               /\ fetch_state = "Idle") => TickStarts
           /\ ~TickStarts => (UNCHANGED <<widget, outstanding>> /\ sent' = << >>)
      ]_vars

\* C5 witness: with last_updated at hour 9 a tick at hour 10, less than an
\* hour later, has started a refresh.
C5_Witness ==
    /\ last_op = "on_timer"
    /\ sent = <<LocationRequest>>
    /\ last_updated # None
    /\ hour(last_updated[1]) = 9
    /\ hour(now) = 10
    /\ now - last_updated[1] < 60

\* C6: the trigger of on_timer, taken in stage Idle, issues exactly one
\* geolocation request tagged api=location, sets the stage to
\* FetchingLocation and records last_requested = now, leaving forecast and
\* last_updated unchanged; in any other stage it issues nothing and changes
\* no field.
C6_TriggerFromIdleOnly ==
    [][ last_op' = "on_timer"
        => /\ TickStarts
                => /\ fetch_state = "Idle"
                   /\ sent' = <<LocationRequest>>
                   /\ outstanding' = outstanding (+) SetToBag({LocationRequest})
                   /\ last_requested' = Some(now')
                   /\ UNCHANGED <<forecast, last_updated, last_rendered, rendered>>
           /\ (fetch_state = "Idle" /\ last_updated = None) => TickStarts
           /\ fetch_state # "Idle"
                => (UNCHANGED <<widget, outstanding>> /\ sent' = << >>) ]_vars

\* C6 witness: the trigger fired from Idle while a forecast was cached.
C6_Witness ==
    /\ last_op = "on_timer"
    /\ sent = <<LocationRequest>>
    /\ fetch_state = "FetchingLocation"
    /\ last_requested = Some(now)
    /\ forecast # None

\* C7: run is equivalent to the trigger in every state: from Idle it issues a
\* request tagged api=location, sets FetchingLocation and records
\* last_requested; from FetchingLocation or FetchingForecast it issues no
\* request and changes no field.
C7_RunEqualsTrigger ==
    [][ last_op' = "run"
        => IF fetch_state = "Idle"
           THEN /\ sent' = <<LocationRequest>>
                /\ fetch_state' = "FetchingLocation"
                /\ last_requested' = Some(now')
                /\ UNCHANGED <<forecast, last_updated>>
           ELSE /\ sent' = << >>
                /\ UNCHANGED <<widget, outstanding>> ]_vars

\* C8: at most one request is outstanding; none when the stage is Idle, and
\* in FetchingLocation / FetchingForecast the outstanding request is the one
\* tagged `location` / `forecast`.
C8_AtMostOneOutstanding ==
    /\ BagCardinality(outstanding) <= 1
    /\ fetch_state = "Idle" => outstanding = EmptyBag
    /\ \A r \in BagToSet(outstanding) : Matches(fetch_state, r.api)

\* C9: the stage does not stay FetchingLocation or FetchingForecast forever
\* when the response is never delivered and timer ticks keep arriving: it is
\* forced back to Idle.
C9_StallTimeout == (fetch_state # "Idle") ~> (fetch_state = "Idle")

\* C9 as amended: there is no stall timeout; a timer tick taken in stage
\* FetchingLocation or FetchingForecast leaves the stage and every other
\* field as they are, however long ago the request was issued.
C9_NoStallTimeout ==
    [][ (last_op' = "on_timer" /\ fetch_state # "Idle")
        => UNCHANGED <<widget, outstanding>> ]_vars

\* C9 witness: a tick handled a day or more after the request was issued,
\* with the response still outstanding and the stage still FetchingLocation.
C9_Witness ==
    /\ last_op = "on_timer"
    /\ fetch_state = "FetchingLocation"
    /\ last_requested # None
    /\ now - last_requested[1] >= 1440
    /\ outstanding = SetToBag({LocationRequest})

\* The advisory the variants are listed under.
ListedMaybe ==
    {"DrizzleLight", "DrizzleModerate", "SnowFallSlight", "SnowGrains",
     "SnowShowersSlight"}

ListedSure ==
    {"DrizzleDense", "FreezingDrizzleLight", "FreezingDrizzleHeavy",
     "RainSlight", "RainModerate", "RainHeavy",
     "SnowFallModerate", "SnowFallHeavy",
     "RainShowersSlight", "RainShowersModerate", "RainShowersViolent",
     "SnowShowersHeavy",
     "Thunderstorm", "ThunderstormSlightHail", "ThunderstormHeavyHail"}

\* C10: need_umbrella is total and returns Maybe exactly for the five listed
\* light conditions, Sure exactly for the fifteen listed wet conditions, and
\* No for every other variant, freezing rain and every Unknown(n) included.
C10_NeedUmbrellaTable ==
    advice # "none"
        => /\ advice \in NeedsUmbrella
           /\ advice = "Maybe" <=> code[1][1] \in ListedMaybe
           /\ advice = "Sure" <=> code[1][1] \in ListedSure
           /\ code[1][1] \in {"FreezingRainLight", "FreezingRainHeavy", "Unknown"}
                  => advice = "No"

\* C10 witness: the advisory of Unknown(61), whose payload is a rain code,
\* was computed.
C10_Witness ==
    /\ raw = None
    /\ code = Some(Unknown(61))
    /\ advice = "No"

\* The raw codes of the fixed table.
TableCodes ==
    {0, 1, 2, 3, 45, 48, 51, 53, 55, 56, 57, 61, 63, 65, 66, 67, 71, 73, 75,
     77, 80, 81, 82, 85, 86, 95, 96, 99}

\* The raw code at hand has been converted, and its advisory computed.
Classified == raw # None /\ code # None

Advised == Classified /\ advice # "none"

\* What holds of every classification, whatever code 61 is taken to mean.
ClassificationTotal ==
    /\ Classified =>
          /\ code[1] \in WeatherCode
          /\ raw[1] \notin TableCodes <=> code[1][1] = "Unknown"
          /\ raw[1] \notin TableCodes => code[1] = Unknown(raw[1])
          /\ raw[1] = 3 => code[1] = <<"Overcast">>
    /\ Advised =>
          /\ raw[1] \notin TableCodes => advice = "No"
          /\ raw[1] = 42 => advice = "No"
          /\ raw[1] = 61 => advice = "Sure"
          /\ raw[1] = 51 => advice = "Maybe"
          /\ raw[1] = 3 => advice = "No"

\* C11: classification of a raw code is total: a code outside the fixed table
\* yields Unknown(rawCode) with advisory No (42 -> Unknown(42), No); code 61
\* is the moderate-rain condition with advisory Sure, code 51 has advisory
\* Maybe, code 3 is Overcast with advisory No.
C11_ClassifyExamples ==
    /\ ClassificationTotal
    /\ (Classified /\ raw[1] = 61) => code[1] = <<"RainModerate">>

\* C11 as amended: the same, with code 61 the slight-rain condition
\* (moderate rain is code 63), advisory Sure.
C11_ClassifyExamplesSlightRain ==
    /\ ClassificationTotal
    /\ (Classified /\ raw[1] = 61) => code[1] = <<"RainSlight">>
    /\ (Classified /\ raw[1] = 63) => code[1] = <<"RainModerate">>

\* C11 witness: code 61 was converted and its advisory computed.
C11_Witness ==
    /\ raw = Some(61)
    /\ code = Some(<<"RainSlight">>)
    /\ advice = "Sure"

\* Every field of the payload is present and reads by itself.
AllParseable(p) ==
    /\ p.timezone # None /\ deserialize_tz(p.timezone[1]) # None
    /\ p.hourly # None /\ DOMAIN p.hourly[1] = HourlyFields
    /\ p.daily # None /\ DOMAIN p.daily[1] = DailyFields
    /\ deserialize_date_vec(p.hourly[1]["time"]) # None
    /\ deserialize_naive_date_vec(p.daily[1]["time"]) # None
    /\ \A b \in {p.hourly[1], p.daily[1]} :
          /\ deserialize_weather_code_vec(b["weather_code"]) # None
          /\ \A f \in DOMAIN b \ {"time", "weather_code"} :
                deserialize_f32_vec(b[f]) # None

\* Every array of a block is as long as its time array.
LengthsMatch(p) ==
    \A b \in {p.hourly[1], p.daily[1]} :
        \A f \in DOMAIN b : Len(b[f]) = Len(b["time"])

\* C12: a forecast payload whose fields are all present and parseable decodes
\* if and only if every hourly array has the length of the hourly timestamps
\* and every daily array the length of the daily dates; a mismatch is a decode
\* error.
C12_DecodeIffLengthsMatch ==
    (decoded # None /\ AllParseable(payload))
        => (decoded[1][1] = "Ok" <=> LengthsMatch(payload))

\* C13: when every request issued is answered with its own tag, a refresh
\* cycle terminates: a stage FetchingLocation or FetchingForecast leads to
\* Idle again, and a cycle ended by a successful `forecast` response ends
\* with forecast present and last_updated set.
C13_CycleTerminates ==
    /\ (fetch_state # "Idle") ~> (fetch_state = "Idle")
    /\ [](( /\ last_op = "on_web_request"
            /\ event.kind = "WebRequestResult"
            /\ event.api = "forecast"
            /\ Success(event.status)
            /\ event.body = "forecast"
            /\ fetch_state = "Idle" )
          => (forecast # None /\ last_updated # None))

\* The wall-clock hours begun up to time t: two times have an hour boundary
\* between them iff their counts differ.
HoursBegun(t) == t \div 60

C15_StaleButAvailable ==
    [][ /\ forecast # None => forecast' # None
        /\ (forecast' # forecast \/ last_updated' # last_updated)
              => /\ ResponseStep
                 /\ fetch_state = "FetchingForecast"
                 /\ event'.api = "forecast"
                 /\ Success(event'.status)
                 /\ event'.body = "forecast"
        /\ (forecast = None <=> last_updated = None)
              => (forecast' = None <=> last_updated' = None) ]_vars

\* C15 witness: a refresh failed in stage FetchingForecast while a forecast
\* was cached, and the forecast is still there.
C15_Witness ==
    /\ last_op = "on_web_request"
    /\ event.kind = "WebRequestResult"
    /\ event.api = "forecast"
    /\ ~Success(event.status)
    /\ fetch_state = "FetchingForecast"
    /\ forecast # None
    /\ last_updated # None

\* The moves of the stage.
StageMoves ==
    { <<"Idle", "FetchingLocation">>,
      <<"FetchingLocation", "FetchingForecast">>,
      <<"FetchingLocation", "Idle">>,
      <<"FetchingForecast", "Idle">> }

\* C16: the stage only moves Idle -> FetchingLocation, FetchingLocation ->
\* FetchingForecast, FetchingLocation -> Idle, FetchingForecast -> Idle; no
\* operation goes from FetchingForecast to FetchingLocation or from Idle to
\* FetchingForecast, or restarts FetchingLocation while already in it.
C16_StageMoves ==
    [][ /\ fetch_state' # fetch_state
              => <<fetch_state, fetch_state'>> \in StageMoves
        /\ (fetch_state = "FetchingLocation" /\ fetch_state' = "FetchingLocation")
              => sent' = << >> ]_vars

\* C17: initially the stage is Idle and forecast, last_updated,
\* last_requested, last_rendered are absent; in a stage FetchingLocation or
\* FetchingForecast last_requested is present, and every step that issues a
\* request and enters such a stage records last_requested = now.
C17_LastRequestedRecorded ==
    /\ ( /\ fetch_state = "Idle"
         /\ forecast = None /\ last_updated = None
         /\ last_requested = None /\ last_rendered = None )
    /\ [](fetch_state # "Idle" => last_requested # None)
    /\ [][ (sent' # << >> /\ fetch_state' # "Idle")
              => last_requested' = Some(now') ]_vars

TypeOK ==
    /\ fetch_state \in FetchState
    /\ forecast \in {None} \cup { Some(s) : s \in Snapshots }
    /\ last_updated \in {None} \cup { Some(t) : t \in Times }
    /\ last_requested \in {None} \cup { Some(t) : t \in Times }
    /\ last_rendered = None
    /\ rendered = ""
    /\ now \in Times
    /\ BagCardinality(outstanding) <= MaxOutstanding
=============================================================================
